---- MODULE Spec2Model ----
(***************************************************************************)
(* FlyDrone (functions/index.js): a Dialogflow webhook.  One FlyDrone     *)
(* instance is built per inbound request; run() dispatches on the intent  *)
(* name to a handler method, which may start a geocoding call whose       *)
(* promise continues into fetchAirMap and the AirNow request callback.    *)
(*                                                                         *)
(* JavaScript values are tagged records (undefined / number / string), a  *)
(* string being a sequence of tokens.  A token is one character where the *)
(* character matters to ssml (whitespace, & < > " and the letters of the   *)
(* entities) and otherwise a run of plain text that holds no tag           *)
(* delimiter and no whitespace other than single inner spaces.             *)
(***************************************************************************)
EXTENDS Integers, Sequences, FiniteSets, TLC

\* ------------------------------------------------------------------ bounds
\* Number of turns (inbound requests) of one conversation session.
MaxTurns == 2

\* FlyDrone instances that can be alive; the sequential specification uses
\* slot 1 only.
Slots == {1, 2}

\* ------------------------------------------------------------ JS values
Undefined == [t |-> "undefined"]
Num(n) == [t |-> "number", n |-> n]
Str(s) == [t |-> "string", s |-> s]

\* JavaScript truthiness, as used by `!x` and `if (x)`; an object (a record
\* without a type tag) is truthy.
Truthy(v) ==
  IF "t" \notin DOMAIN v THEN TRUE
  ELSE CASE v.t = "undefined" -> FALSE
         [] v.t = "number" -> v.n # 0
         [] v.t = "string" -> v.s # <<>>
         [] OTHER -> TRUE

IsString(v) == v.t = "string"

\* An abrupt completion: a thrown error, or the reason of a rejection.
Throw(e) == [t |-> "throw", error |-> e]
IsThrow(v) == v.t = "throw"

\* ------------------------------------------------------------- constants
Actions ==
  [WELCOME |-> "input.welcome",
   REQUEST_LOC_PERMISSION |-> "request.location.permission",
   HANDLE_DATA |-> "handle.data",
   UNHANDLED_DEEP_LINK |-> "deeplink.unknown",
   CUSTOM_ADDRESS |-> "address.address-fallback"]

\* The intent names for which the FlyDrone class defines a method.
HandlerNames == {Actions[k] : k \in DOMAIN Actions}

\* app.SupportedPermissions, as read through this.permissions.
DEVICE_PRECISE_LOCATION == Str(<<"P">>)
DEVICE_COARSE_LOCATION == Str(<<"C">>)

\* Identifiers bound in the module scope of index.js.
ModuleScope ==
  {"url", "DialogflowApp", "Responses", "RichResponse", "BasicCard",
   "functions", "maps", "Request", "config", "client", "Actions",
   "AIRNOW_URL", "APP_KEY", "DEFAULT_LAT", "DEFAULT_LONG", "DEFFAULT_CITY",
   "STATIC_MAPS_ADDRESS", "STATIC_MAPS_SIZE", "staticMapsURL",
   "locationResponse", "ssml", "COLOR_CODE", "responses", "FlyDrone"}

ColorKeys == {"red", "orange", "yellow", "green"}

COLOR_CODE ==
  [k \in ColorKeys |->
     CASE k = "red" -> <<"is strictly prohibited. Please change location and check again">>
       [] k = "orange" -> <<"is restricted. Action is required to get authorization to fly your drone in this area">>
       [] k = "yellow" -> <<"is restricted. Please check advisories and use caution when flying your drone">>
       [] k = "green" -> <<"has no restrictions, but please use caution when flying your drone">>]

\* COLOR_CODE[key] as JavaScript evaluates it: undefined for a missing key.
ColorLookup(key) ==
  IF key \in ColorKeys THEN Str(COLOR_CODE[key]) ELSE Undefined

\* ------------------------------------------------------------------ ssml
RECURSIVE replaceAll(_, _, _)
\* String.prototype.replace(/c/g, rep) on a sequence of characters.
replaceAll(s, c, rep) ==
  IF s = <<>> THEN <<>>
  ELSE (IF Head(s) = c THEN rep ELSE <<Head(s)>>) \o replaceAll(Tail(s), c, rep)

\* Variant: the ampersand is replaced after the other three characters.
escape_ampersandLast(s) ==
  replaceAll(
    replaceAll(
      replaceAll(
        replaceAll(s, "<", <<"&", "l", "t", ";">>),
        ">", <<"&", "g", "t", ";">>),
      "\"", <<"&", "q", "u", "o", "t", ";">>),
    "&", <<"&", "a", "m", "p", ";">>)

\* The four chained replacements applied to one interpolated input.
escape(s) ==
  replaceAll(
    replaceAll(
      replaceAll(
        replaceAll(s, "&", <<"&", "a", "m", "p", ";">>),
        "<", <<"&", "l", "t", ";">>),
      ">", <<"&", "g", "t", ";">>),
    "\"", <<"&", "q", "u", "o", "t", ";">>)

RECURSIVE ssmlFrom(_, _, _)
\* The reduce over the template: chunk, escaped input, chunk, ...
ssmlFrom(template, inputs, i) ==
  IF i > Len(template) THEN <<>>
  ELSE (IF i = 1 THEN <<>> ELSE escape(inputs[i - 1].s))
       \o template[i] \o ssmlFrom(template, inputs, i + 1)

\* The characters \s matches.
Whitespace == {" ", "\n", "\t"}

RECURSIVE trimStart(_)
trimStart(s) ==
  IF s # <<>> /\ Head(s) \in Whitespace THEN trimStart(Tail(s)) ELSE s

RECURSIVE trimEnd(_)
trimEnd(s) ==
  IF s # <<>> /\ s[Len(s)] \in Whitespace
  THEN trimEnd(SubSeq(s, 1, Len(s) - 1))
  ELSE s

\* String.prototype.trim()
trim(s) == trimEnd(trimStart(s))

RECURSIVE collapseWhitespace(_)
\* .replace(/\s+/g, ' ')
collapseWhitespace(s) ==
  IF s = <<>> THEN <<>>
  ELSE IF Head(s) \in Whitespace
       THEN <<" ">> \o collapseWhitespace(trimStart(s))
       ELSE <<Head(s)>> \o collapseWhitespace(Tail(s))

RECURSIVE replacePair(_, _, _, _)
\* .replace(/ab/g, c) for two one-character tokens a, b.
replacePair(s, a, b, c) ==
  IF Len(s) < 2 THEN s
  ELSE IF s[1] = a /\ s[2] = b
       THEN <<c>> \o replacePair(SubSeq(s, 3, Len(s)), a, b, c)
       ELSE <<s[1]>> \o replacePair(Tail(s), a, b, c)

\* .trim().replace(/\s+/g, ' ').replace(/ </g, '<').replace(/> /g, '>')
normalize(s) ==
  replacePair(replacePair(collapseWhitespace(trim(s)), " ", "<", "<"),
              ">", " ", ">")

\* The tagged-template function: throws a TypeError when an input has no
\* replace method (it is not a string).
ssml(template, inputs) ==
  IF \E i \in 1..Len(inputs) : ~IsString(inputs[i])
  THEN Throw("TypeError")
  ELSE Str(normalize(ssmlFrom(template, inputs, 1)))

\* Pieces the templates share.
Indent == <<"\n", " ">>
Tag(name) == <<"<", name, ">">>
Break(time) == <<"<", "break", " ", time, ">">>

\* ------------------------------------------------------------- responses
locationResponse(city, lat, long, speech) ==
  [t |-> "rich", speech |-> speech,
   card |-> [center |-> city, markers |-> <<lat, long>>]]

\* responses.sayLocation: the arguments of the call to locationResponse are
\* evaluated first, and the template reads the identifier aqi.
sayLocation(city, lat, long, def, weather, wind) ==
  IF "aqi" \notin ModuleScope
  THEN Throw("ReferenceError")
  ELSE LET speech ==
             ssml(<<Indent \o Tag("speak") \o Indent
                      \o <<"Here are the results:", " ">> \o Break("time=\"500ms\"/")
                      \o Indent \o <<"Air Quality at", " ">>,
                    <<" ", "is", " ">>,
                    <<".">> \o Break("time=\"500ms\"/") \o Indent
                      \o <<"The Air Quality Index is", " ">>,
                    <<".", " ", "<", "sub", " ", "alias=\"Particulate Matter 2.5\"", ">", "PM2.5">>
                      \o Tag("/sub") \o <<".">> \o Indent \o Tag("/speak") \o Indent>>,
                  <<city, def, Undefined>>)
       IN IF IsThrow(speech) THEN speech
          ELSE locationResponse(city, lat, long, speech)

greetUser ==
  ssml(<<Indent \o Tag("speak") \o Indent
           \o <<"Welcome to Air Quality Assistant!">> \o Indent
           \o Break("time=\"500ms\"/") \o Indent
           \o <<"We can get you information about Air Quality in your area from the United States EPA, Air Now Program">>
           \o Indent \o Break("time=\"500ms\"/") \o Indent
           \o <<"Do you want us to use your current location, or do you want to check an address?">>
           \o Indent \o Tag("/speak") \o Indent>>,
       <<>>)

unhandledDeepLinks(input) ==
  ssml(<<Indent \o Tag("speak") \o Indent
           \o <<"We're sorry, we didn't understand", " ">>,
         <<".", " ", "Please try again.", " ">> \o Indent \o Tag("/speak") \o Indent>>,
       <<input>>)

flyDroneError ==
  ssml(<<Indent \o Tag("speak") \o Indent \o <<"Oops!">> \o Indent
           \o Break("time=\"1s\"/") \o Indent
           \o <<"Something went wrong, and we couldn't get the information you asked for.">>
           \o Indent \o Break("time=\"250ms\"/") \o Indent
           \o <<"Please try again or check www.airnow.gov for more information.">>
           \o Indent \o Tag("/speak") \o Indent>>,
       <<>>)

coarseLocation(city) ==
  ssml(<<Indent \o Tag("speak") \o Indent
           \o <<"We weren't able to find your precise location using your device.">>
           \o Indent \o Break("time=\"250ms\"/") \o Indent
           \o <<"Your device's current location", " ">>,
         <<" ", "is not precise enough to return accurate information.">>
           \o Indent \o Break("time=\"500ms\"/") \o Indent
           \o <<"Please use a specific address instead.">>
           \o Indent \o Tag("/speak") \o Indent>>,
       <<city>>)

noCoarseLocation ==
  ssml(<<Indent \o Tag("speak") \o Indent \o <<"Oops!">> \o Indent
           \o Break("time=\"1s\"/") \o Indent
           \o <<"We didn't see a location set in your device.", " ">>
           \o Indent \o Break("time=\"250ms\"/") \o Indent
           \o <<"But you can try again with a specific address.">>
           \o Indent \o Tag("/speak") \o Indent>>,
       <<>>)

permissionReason == Str(<<"To find your device location">>)

\* ---------------------------------------------------------------- inputs
Intents == HandlerNames \cup {"", "some.other.intent"}

RawInputs == {Str(<<>>), Str(<<"B", "&">>)}

LocalityNames == {Str(<<>>), Str(<<"S", "F">>)}

DeviceCities == {Undefined} \cup LocalityNames

CoordValues == {Undefined, Num(0), Num(47)}

LatLng == [latitude : CoordValues, longitude : CoordValues]

DeviceCoordinates == {Undefined} \cup LatLng

\* One inbound request: what the platform says about intent, permission,
\* surface, utterance and device location.
Inbound(intent, granted, screen, rawInput, city, coordinates) ==
  [intent |-> intent, granted |-> granted, screen |-> screen,
   rawInput |-> rawInput, city |-> city, coordinates |-> coordinates]

\* The inbound requests of the model.  A field the handler of the intent
\* never reads is held at one value.  getDeviceLocation() always yields an
\* object; its city and its coordinates may each be missing.
InboundRequests ==
  {Inbound(i, FALSE, FALSE, Str(<<>>), Undefined, Undefined) :
     i \in {"", "some.other.intent", Actions.WELCOME}}
  \cup {Inbound(Actions.UNHANDLED_DEEP_LINK, FALSE, FALSE, u, Undefined, Undefined) :
          u \in RawInputs}
  \cup {Inbound(Actions.CUSTOM_ADDRESS, FALSE, FALSE, u, Undefined, Undefined) :
          u \in RawInputs}
  \cup {Inbound(Actions.REQUEST_LOC_PERMISSION, g[1], g[2], Str(<<>>), Undefined, Undefined) :
          g \in BOOLEAN \X BOOLEAN}
  \cup {Inbound(Actions.HANDLE_DATA, l[1], FALSE, Str(<<>>), l[2], l[3]) :
          l \in BOOLEAN \X DeviceCities \X DeviceCoordinates}

NoRequest == [intent |-> "-"]

\* ------------------------------------------------- external services
\* A reverse-geocoding result: its address components, in order.
Component(type, name) == [types |-> <<type>>, long_name |-> name]

AddressComponents ==
  {<<>>,
   <<Component("route", Str(<<"R">>))>>,
   <<Component("route", Str(<<"R">>)), Component("locality", Str(<<"S", "F">>))>>,
   <<Component("locality", Str(<<>>))>>,
   <<Component("locality", Str(<<"S", "F">>)), Component("locality", Str(<<"L", "A">>))>>}

\* What client.reverseGeocode hands to its callback: (e, response).
ReverseGeocodeOutcomes ==
  {[e |-> Throw("GeocodingServiceError")]}
  \cup {[e |-> Undefined, results |-> <<>>]}
  \cup {[e |-> Undefined, results |-> <<[address_components |-> c]>>] :
          c \in AddressComponents}

\* What client.geocode hands to its callback: (e, response).
GeocodeOutcomes ==
  {[e |-> Throw("GeocodingServiceError")]}
  \cup {[e |-> Undefined, results |-> <<>>]}
  \cup {[e |-> Undefined, results |-> <<[location |-> Undefined]>>]}
  \cup {[e |-> Undefined, results |-> <<[location |-> [lat |-> g.latitude, lng |-> g.longitude]]>>] :
          g \in LatLng}

AdvisoryColors == ColorKeys \cup {"purple"}

AdvisoryBodies ==
  {[parseable |-> FALSE]}
  \cup {[parseable |-> TRUE,
         data |-> [advisory_color |-> c,
                   weather |-> [condition |-> Str(<<"Clear">>),
                                wind |-> [speed |-> Num(5)]]]] :
          c \in AdvisoryColors}

\* What Request hands to its callback: (error, response, body).
AdvisoryOutcomes ==
  {[error |-> Throw("ETIMEDOUT"), response |-> Undefined]}
  \cup {[error |-> Undefined, response |-> [statusCode |-> 500]]}
  \cup {[error |-> Undefined, response |-> [statusCode |-> 200], body |-> b] :
          b \in AdvisoryBodies}

\* ----------------------------------------------------------------- state
VARIABLES
  turn,           \* requests received so far in the session
  data,           \* app.data: the session state
  req,            \* the inbound request each instance was built for
  DEFAULT_CITY,   \* this.DEFAULT_CITY of each instance
  DEFAULT_LAT,    \* this.DEFAULT_LAT
  DEFAULT_LONG,   \* this.DEFAULT_LONG
  pc,             \* what each instance is waiting for
  result,         \* the value the handler returned to run()
  geocoded,       \* what the Geocoding Service handed to the callback
  settled,        \* what the geocoding promise settled with
  answered,       \* what the AirNow request handed to its callback
  calls,          \* outbound service calls issued, in order
  out,            \* responses emitted through app.tell/ask/askForPermission
  errors,         \* errors nobody handled: thrown out of a callback, or
                  \* rejections without a handler
  staticMapsURL,  \* staticMapsURL.query: center and markers, module level
  chosen          \* history: the precision the latest permission-request
                  \* turn of the session chose for its surface

vars == <<turn, data, req, DEFAULT_CITY, DEFAULT_LAT, DEFAULT_LONG, pc,
          result, geocoded, settled, answered, calls, out, errors,
          staticMapsURL, chosen>>

NotAPromise == [t |-> "undefined"]
Promise(state, reason) == [t |-> "promise", state |-> state, reason |-> reason]

Tell(speech) == [kind |-> "tell", speech |-> speech]
Ask(speech) == [kind |-> "ask", speech |-> speech]
AskForPermission(context, permission) ==
  [kind |-> "askForPermission", speech |-> context, permission |-> permission]

Unhandled(at, kind, error) == [at |-> at, kind |-> kind, error |-> error]

Init ==
  /\ turn = 0
  /\ data = [requestedPermission |-> Undefined]
  /\ req = [r \in Slots |-> NoRequest]
  /\ DEFAULT_CITY = [r \in Slots |-> Undefined]
  /\ DEFAULT_LAT = [r \in Slots |-> Undefined]
  /\ DEFAULT_LONG = [r \in Slots |-> Undefined]
  /\ pc = [r \in Slots |-> "idle"]
  /\ result = [r \in Slots |-> NotAPromise]
  /\ geocoded = [r \in Slots |-> Undefined]
  /\ settled = [r \in Slots |-> Undefined]
  /\ answered = [r \in Slots |-> Undefined]
  /\ calls = [r \in Slots |-> <<>>]
  /\ out = [r \in Slots |-> <<>>]
  /\ errors = [r \in Slots |-> <<>>]
  /\ staticMapsURL = [center |-> Undefined, markers |-> Undefined]
  /\ chosen = Undefined

\* -------------------------------------------------------------- handlers
\* What one synchronous handler invocation leaves behind: the instance
\* fields, the session state, the calls issued, the responses emitted, and
\* its completion (a returned value, or a thrown error).
Effect(city, lat, long, d, cs, o, ret) ==
  [city |-> city, lat |-> lat, long |-> long, data |-> d,
   calls |-> cs, out |-> o, ret |-> ret]

GeocodeCall(address) == [svc |-> "geocode", address |-> address]
ReverseGeocodeCall(latitude, longitude) ==
  [svc |-> "reverseGeocode", latlng |-> <<latitude, longitude>>]
AirNowCall(lat, long, key) ==
  [svc |-> "airnow", latitude |-> lat, longitude |-> long, key |-> key]

\* Variant: the greeting starts the session state afresh.
WELCOME_resets(q, d) ==
  Effect(Undefined, Undefined, Undefined,
         [requestedPermission |-> Undefined], <<>>,
         <<Ask(greetUser)>>, NotAPromise)

\* [Actions.WELCOME]
WELCOME(q, d) ==
  Effect(Undefined, Undefined, Undefined, d, <<>>, <<Ask(greetUser)>>,
         NotAPromise)

\* [Actions.UNHANDLED_DEEP_LINK]
UNHANDLED_DEEP_LINK(q, d) ==
  Effect(Undefined, Undefined, Undefined, d, <<>>,
         <<Ask(unhandledDeepLinks(q.rawInput))>>, NotAPromise)

\* The precision [Actions.REQUEST_LOC_PERMISSION] asks for.
PermissionFor(screen) ==
  IF screen THEN DEVICE_PRECISE_LOCATION ELSE DEVICE_COARSE_LOCATION

\* Variant: the prompt is emitted whether or not permission is granted.
REQUEST_LOC_PERMISSION_alwaysAsks(q, d) ==
  LET requestedPermission == PermissionFor(q.screen)
      d2 == [d EXCEPT !.requestedPermission = requestedPermission]
  IN Effect(Undefined, Undefined, Undefined, d2, <<>>,
            <<AskForPermission(permissionReason, requestedPermission)>>,
            NotAPromise)

\* Variant: the chosen precision is not written to the session state.
REQUEST_LOC_PERMISSION_unsaved(q, d) ==
  LET requestedPermission == PermissionFor(q.screen)
  IN Effect(Undefined, Undefined, Undefined, d, <<>>,
            IF ~q.granted
            THEN <<AskForPermission(permissionReason, requestedPermission)>>
            ELSE <<>>,
            NotAPromise)

\* [Actions.REQUEST_LOC_PERMISSION]
REQUEST_LOC_PERMISSION(q, d) ==
  LET requestedPermission == PermissionFor(q.screen)
      d2 == [d EXCEPT !.requestedPermission = requestedPermission]
  IN Effect(Undefined, Undefined, Undefined, d2, <<>>,
            IF ~q.granted
            THEN <<AskForPermission(permissionReason, requestedPermission)>>
            ELSE <<>>,
            NotAPromise)

\* Variant: fetchAirMap is called next to the geocoding call instead of
\* inside its continuation.
CUSTOM_ADDRESS_eager(q, d) ==
  Effect(q.rawInput, Undefined, Undefined, d,
         <<GeocodeCall(q.rawInput), AirNowCall(Undefined, Undefined, Undefined)>>,
         <<>>, Promise("pending", "geocode"))

\* [Actions.CUSTOM_ADDRESS]
CUSTOM_ADDRESS(q, d) ==
  Effect(q.rawInput, Undefined, Undefined, d,
         <<GeocodeCall(q.rawInput)>>, <<>>, Promise("pending", "geocode"))

\* Variant: the precision is examined before the grant.
HandleDataBranch_precisionFirst(granted, requestedPermission) ==
  IF requestedPermission = DEVICE_COARSE_LOCATION THEN "coarse"
  ELSE IF requestedPermission = DEVICE_PRECISE_LOCATION THEN "precise"
  ELSE IF ~granted THEN "denied"
  ELSE "unrecognized"

\* The branch [Actions.HANDLE_DATA] takes.
HandleDataBranch(granted, requestedPermission) ==
  IF ~granted THEN "denied"
  ELSE IF requestedPermission = DEVICE_COARSE_LOCATION THEN "coarse"
  ELSE IF requestedPermission = DEVICE_PRECISE_LOCATION THEN "precise"
  ELSE "unrecognized"

\* Variant: only a missing city counts as no location, an empty one does
\* not.
CoarsePrompt_missingOnly(city) ==
  IF city = Undefined
  THEN noCoarseLocation
  ELSE coarseLocation(city)

\* The prompt of the coarse branch.
CoarsePrompt(city) ==
  IF city = Undefined \/ ~Truthy(city)
  THEN noCoarseLocation
  ELSE coarseLocation(city)

\* [Actions.HANDLE_DATA]
HANDLE_DATA(q, d) ==
  LET branch == HandleDataBranch(q.granted, d.requestedPermission)
  IN CASE branch = "denied" ->
            Effect(Undefined, Undefined, Undefined, d, <<>>, <<>>,
                   Promise("rejected", "Permission not granted"))
       [] branch = "coarse" ->
            Effect(q.city, Undefined, Undefined, d, <<>>,
                   <<Tell(CoarsePrompt(q.city))>>, NotAPromise)
       [] branch = "precise" ->
            IF q.coordinates = Undefined
            THEN Effect(Undefined, Undefined, Undefined, d, <<>>, <<>>,
                        Throw("TypeError"))
            ELSE Effect(Undefined, q.coordinates.latitude,
                        q.coordinates.longitude, d,
                        <<ReverseGeocodeCall(q.coordinates.latitude,
                                             q.coordinates.longitude)>>,
                        <<>>, Promise("pending", "reverseGeocode"))
       [] OTHER ->
            Effect(Undefined, Undefined, Undefined, d, <<>>, <<>>,
                   Promise("rejected", "Unrecognized permission"))

\* map[action](): the method the intent name selects on the instance.
Invoke(action, q, d) ==
  CASE action = Actions.WELCOME -> WELCOME(q, d)
    [] action = Actions.UNHANDLED_DEEP_LINK -> UNHANDLED_DEEP_LINK(q, d)
    [] action = Actions.REQUEST_LOC_PERMISSION -> REQUEST_LOC_PERMISSION(q, d)
    [] action = Actions.CUSTOM_ADDRESS -> CUSTOM_ADDRESS(q, d)
    [] action = Actions.HANDLE_DATA -> HANDLE_DATA(q, d)
    [] OTHER ->
         Effect(Undefined, Undefined, Undefined, d, <<>>, <<>>,
                Throw("TypeError"))

\* run() up to its return: the synchronous part of handling request q.
runEffect(q, d) ==
  IF q.intent = ""
  THEN Effect(Undefined, Undefined, Undefined, d, <<>>,
              <<Tell(flyDroneError)>>, NotAPromise)
  ELSE Invoke(q.intent, q, d)

\* Variant: run() attaches no catch to a promise that is already rejected.
AfterRun_noCatch(ret) ==
  IF IsThrow(ret) THEN "done"
  ELSE IF ret.t # "promise" THEN "done"
  ELSE IF ret.state = "rejected" THEN "done"
  ELSE ret.reason

\* Variant: run() takes the caught-error path for every result that is not
\* a pending promise.
AfterRun_alwaysCatch(ret) ==
  IF IsThrow(ret) THEN "done"
  ELSE IF ret.t # "promise" THEN "catch"
  ELSE IF ret.state = "rejected" THEN "catch"
  ELSE ret.reason

\* Where the instance stands when run() has returned (or thrown).
AfterRun(ret) ==
  IF IsThrow(ret) THEN "done"
  ELSE IF ret.t # "promise" THEN "done"
  ELSE IF ret.state = "rejected" THEN "catch"
  ELSE ret.reason

\* The request as the instance holds it: the platform delivers the session
\* state (app.data) along with it.
Received(q, d) ==
  [intent |-> q.intent, granted |-> q.granted, screen |-> q.screen,
   rawInput |-> q.rawInput, city |-> q.city, coordinates |-> q.coordinates,
   requestedPermission |-> d.requestedPermission]

\* exports.flyDrone: new FlyDrone(req, res).run() for inbound request q.
run(r, q) ==
  LET h == runEffect(q, data)
  IN /\ pc[r] \in {"idle", "done"}
     /\ turn < MaxTurns
     /\ turn' = turn + 1
     /\ chosen' = IF q.intent = Actions.REQUEST_LOC_PERMISSION
                  THEN (IF q.screen THEN DEVICE_PRECISE_LOCATION
                        ELSE DEVICE_COARSE_LOCATION)
                  ELSE chosen
     /\ UNCHANGED staticMapsURL
     /\ data' = h.data
     /\ req' = [req EXCEPT ![r] = Received(q, data)]
     /\ DEFAULT_CITY' = [DEFAULT_CITY EXCEPT ![r] = h.city]
     /\ DEFAULT_LAT' = [DEFAULT_LAT EXCEPT ![r] = h.lat]
     /\ DEFAULT_LONG' = [DEFAULT_LONG EXCEPT ![r] = h.long]
     /\ calls' = [calls EXCEPT ![r] = h.calls]
     /\ out' = [out EXCEPT ![r] = h.out]
     /\ result' = [result EXCEPT ![r] = h.ret]
     /\ geocoded' = [geocoded EXCEPT ![r] = Undefined]
     /\ settled' = [settled EXCEPT ![r] = Undefined]
     /\ answered' = [answered EXCEPT ![r] = Undefined]
     /\ errors' = [errors EXCEPT ![r] =
                     IF IsThrow(h.ret)
                     THEN <<Unhandled("run", "throw", h.ret.error)>>
                     ELSE <<>>]
     /\ pc' = [pc EXCEPT ![r] = AfterRun(h.ret)]

\* ------------------------------------------------------------- callbacks
\* Variant: the field is one variable of the module, shared by all
\* instances, instead of a property of this.
Field_moduleLevel(f, r) == f[1]

\* this.f as a callback of instance r reads it.
Field(f, r) == f[r]

RECURSIVE firstLocality(_)
\* The long_name of the first component with a type 'locality', or
\* undefined when the loops of coordinatesToCity fall through.
firstLocality(components) ==
  IF components = <<>> THEN Undefined
  ELSE IF \E i \in 1..Len(Head(components).types) :
            Head(components).types[i] = "locality"
       THEN Head(components).long_name
       ELSE firstLocality(Tail(components))

\* How the callback of coordinatesToCity completes for outcome o: the
\* promise resolves, rejects, or the callback throws.
coordinatesToCity(o) ==
  IF Truthy(o.e) THEN [t |-> "reject", reason |-> o.e.error]
  ELSE IF o.results = <<>> THEN Throw("TypeError")
  ELSE LET name == firstLocality(o.results[1].address_components)
       IN IF name # Undefined
          THEN [t |-> "resolve", value |-> name]
          ELSE [t |-> "reject",
                reason |-> "Could not parse city name from Google Maps results"]

\* Variant: a result without a location resolves with no coordinates
\* instead of rejecting.
cityToCoordniates_alwaysResolves(o) ==
  IF Truthy(o.e) THEN [t |-> "reject", reason |-> o.e.error]
  ELSE IF o.results = <<>> THEN Throw("TypeError")
  ELSE LET gloc == o.results[1].location
       IN IF Truthy(gloc)
          THEN [t |-> "resolve",
                value |-> [latitude |-> gloc.lat, longitude |-> gloc.lng]]
          ELSE [t |-> "resolve",
                value |-> [latitude |-> Undefined, longitude |-> Undefined]]

\* How the callback of cityToCoordniates completes for outcome o.
cityToCoordniates(o) ==
  IF Truthy(o.e) THEN [t |-> "reject", reason |-> o.e.error]
  ELSE IF o.results = <<>> THEN Throw("TypeError")
  ELSE LET gloc == o.results[1].location
       IN IF Truthy(gloc)
          THEN [t |-> "resolve",
                value |-> [latitude |-> gloc.lat, longitude |-> gloc.lng]]
          ELSE [t |-> "reject",
                reason |-> "Could not obtain coornidate from Google Maps results"]

\* The geocoding callback of instance r, called with o, has completed
\* with c.
GeocodingSettles(r, o, c) ==
  /\ geocoded' = [geocoded EXCEPT ![r] = o]
  /\ pc' = [pc EXCEPT ![r] =
              CASE c.t = "resolve" -> "then"
                [] c.t = "reject" -> "catch"
                [] OTHER -> "done"]
  /\ settled' = [settled EXCEPT ![r] =
                   CASE c.t = "resolve" -> c.value
                     [] c.t = "reject" -> Throw(c.reason)
                     [] OTHER -> @]
  /\ result' = [result EXCEPT ![r] =
                  IF c.t = "reject" THEN Promise("rejected", c.reason) ELSE @]
  /\ errors' = [errors EXCEPT ![r] =
                  IF IsThrow(c)
                  THEN Append(@, Unhandled("geocoding callback", "throw", c.error))
                  ELSE @]
  /\ UNCHANGED <<turn, data, req, DEFAULT_CITY, DEFAULT_LAT, DEFAULT_LONG,
                 answered, calls, out, staticMapsURL, chosen>>

\* client.reverseGeocode calls back.
reverseGeocodeCallback(r) ==
  /\ pc[r] = "reverseGeocode"
  /\ \E o \in ReverseGeocodeOutcomes : GeocodingSettles(r, o, coordinatesToCity(o))

\* client.geocode calls back.
geocodeCallback(r) ==
  /\ pc[r] = "geocode"
  /\ \E o \in GeocodeOutcomes : GeocodingSettles(r, o, cityToCoordniates(o))

\* Variant: one coordinate is taken to be enough.
CanResolveLocation_eitherCoordinate(city, lat, long) ==
  ~(~Truthy(city) /\ (~Truthy(lat) /\ ~Truthy(long)))

\* The guard of fetchAirMap: FALSE when it returns the rejected promise.
CanResolveLocation(city, lat, long) ==
  ~(~Truthy(city) /\ (~Truthy(lat) \/ ~Truthy(long)))

\* fetchAirMap() on an instance with the given fields: the request it
\* issues, or the rejection it returns.
fetchAirMap(city, lat, long) ==
  IF ~CanResolveLocation(city, lat, long)
  THEN [t |-> "reject", reason |-> "We cannot resolve the location."]
  ELSE [t |-> "request", call |-> AirNowCall(lat, long, Undefined)]

\* Variant: the continuation of the reverse-geocoding promise does not
\* wait for the callback.
ContinuationRuns_early(state) == state \in {"then", "reverseGeocode"}

\* Whether the continuation passed to .then() runs.
ContinuationRuns(state) == state = "then"

\* The .then() continuation of [Actions.CUSTOM_ADDRESS] and of
\* [Actions.HANDLE_DATA]: store what geocoding delivered, call fetchAirMap,
\* drop what it returns.
thenContinuation(r) ==
  /\ ContinuationRuns(pc[r])
  /\ LET custom == req[r].intent = Actions.CUSTOM_ADDRESS
         city == IF custom THEN Field(DEFAULT_CITY, r) ELSE settled[r]
         lat == IF custom THEN settled[r].latitude ELSE Field(DEFAULT_LAT, r)
         long == IF custom THEN settled[r].longitude ELSE Field(DEFAULT_LONG, r)
         f == fetchAirMap(city, lat, long)
     IN /\ DEFAULT_CITY' = [DEFAULT_CITY EXCEPT ![r] = city]
        /\ DEFAULT_LAT' = [DEFAULT_LAT EXCEPT ![r] = lat]
        /\ DEFAULT_LONG' = [DEFAULT_LONG EXCEPT ![r] = long]
        /\ result' = [result EXCEPT ![r] = Promise("fulfilled", "")]
        /\ IF f.t = "request"
           THEN /\ calls' = [calls EXCEPT ![r] = Append(@, f.call)]
                /\ pc' = [pc EXCEPT ![r] = "request"]
                /\ UNCHANGED errors
           ELSE /\ errors' = [errors EXCEPT ![r] =
                     Append(@, Unhandled("fetchAirMap", "unhandledRejection", f.reason))]
                /\ pc' = [pc EXCEPT ![r] = "done"]
                /\ UNCHANGED calls
  /\ UNCHANGED <<turn, data, req, geocoded, settled, answered, out,
                 staticMapsURL, chosen>>

numberToString(v) == Str(<<ToString(v.n)>>)

\* Variant: a failed request tells the generic failure prompt.
RequestCallback_tellsFailure(o, city, lat, long) ==
  IF ~Truthy(o.error) /\ o.response.statusCode = 200
  THEN IF ~o.body.parseable THEN Throw("SyntaxError")
       ELSE LET info == o.body
                said == sayLocation(city, lat, long,
                          ColorLookup(info.data.advisory_color),
                          info.data.weather.condition,
                          numberToString(info.data.weather.wind.speed))
            IN IF IsThrow(said) THEN said
               ELSE [t |-> "tell", response |-> said]
  ELSE [t |-> "tell", response |-> flyDroneError]

\* How the callback passed to Request completes for outcome o on an
\* instance with the given fields: a response told, a thrown error, or a
\* rejected promise returned to the request library.
RequestCallback(o, city, lat, long) ==
  IF ~Truthy(o.error) /\ o.response.statusCode = 200
  THEN IF ~o.body.parseable THEN Throw("SyntaxError")
       ELSE LET info == o.body
                said == sayLocation(city, lat, long,
                          ColorLookup(info.data.advisory_color),
                          info.data.weather.condition,
                          numberToString(info.data.weather.wind.speed))
            IN IF IsThrow(said) THEN said
               ELSE [t |-> "tell", response |-> said]
  ELSE IF o.response = Undefined THEN Throw("TypeError")
  ELSE [t |-> "reject",
        reason |-> "We cannot retrieve flight data at the moment"]

\* The AirNow request calls back.
requestCallback(r) ==
  /\ pc[r] = "request"
  /\ \E o \in AdvisoryOutcomes :
       LET c == RequestCallback(o, Field(DEFAULT_CITY, r),
                                Field(DEFAULT_LAT, r), Field(DEFAULT_LONG, r))
       IN /\ answered' = [answered EXCEPT ![r] = o]
          /\ staticMapsURL' = IF c.t = "tell" /\ c.response.t = "rich"
                              THEN c.response.card
                              ELSE staticMapsURL
          /\ out' = [out EXCEPT ![r] =
                       IF c.t = "tell" THEN Append(@, Tell(c.response)) ELSE @]
          /\ errors' = [errors EXCEPT ![r] =
                          CASE c.t = "throw" ->
                                 Append(@, Unhandled("request callback", "throw", c.error))
                            [] c.t = "reject" ->
                                 Append(@, Unhandled("request callback", "unhandledRejection", c.reason))
                            [] OTHER -> @]
  /\ pc' = [pc EXCEPT ![r] = "done"]
  /\ UNCHANGED <<turn, data, req, DEFAULT_CITY, DEFAULT_LAT, DEFAULT_LONG,
                 result, geocoded, settled, calls, chosen>>

\* The handler run() attached with result.catch(): log, then tell the
\* generic failure prompt.
catchHandler(r) ==
  /\ pc[r] = "catch"
  /\ out' = [out EXCEPT ![r] = Append(@, Tell(flyDroneError))]
  /\ pc' = [pc EXCEPT ![r] = "done"]
  /\ UNCHANGED <<turn, data, req, DEFAULT_CITY, DEFAULT_LAT, DEFAULT_LONG,
                 result, geocoded, settled, answered, calls, errors,
                 staticMapsURL, chosen>>

\* --------------------------------------------------------- specification
\* One inbound request per intent the platform can send.
ReceiveNoIntent(r) ==
  \E q \in InboundRequests : q.intent = "" /\ run(r, q)

ReceiveUnknownIntent(r) ==
  \E q \in InboundRequests : q.intent \notin HandlerNames \cup {""} /\ run(r, q)

ReceiveWelcome(r) ==
  \E q \in InboundRequests : q.intent = Actions.WELCOME /\ run(r, q)

ReceiveUnhandledDeepLink(r) ==
  \E q \in InboundRequests : q.intent = Actions.UNHANDLED_DEEP_LINK /\ run(r, q)

ReceiveRequestLocPermission(r) ==
  \E q \in InboundRequests : q.intent = Actions.REQUEST_LOC_PERMISSION /\ run(r, q)

ReceiveCustomAddress(r) ==
  \E q \in InboundRequests : q.intent = Actions.CUSTOM_ADDRESS /\ run(r, q)

ReceiveHandleData(r) ==
  \E q \in InboundRequests : q.intent = Actions.HANDLE_DATA /\ run(r, q)

\* The session handles one request at a time, on instance 1.
Next ==
  \/ ReceiveNoIntent(1)
  \/ ReceiveUnknownIntent(1)
  \/ ReceiveWelcome(1)
  \/ ReceiveUnhandledDeepLink(1)
  \/ ReceiveRequestLocPermission(1)
  \/ ReceiveCustomAddress(1)
  \/ ReceiveHandleData(1)
  \/ reverseGeocodeCallback(1)
  \/ geocodeCallback(1)
  \/ thenContinuation(1)
  \/ requestCallback(1)
  \/ catchHandler(1)

Spec == Init /\ [][Next]_vars

\* The requests that stay in flight across a service call (or, on the
\* coarse branch, speak the city of the request), with two devices apart.
ConcurrentRequests ==
  {q \in InboundRequests :
     \/ q.intent = Actions.CUSTOM_ADDRESS
     \/ /\ q.intent = Actions.HANDLE_DATA
        /\ q.granted
        /\ q.city # Undefined
        /\ q.coordinates \in {[latitude |-> Num(47), longitude |-> Num(0)],
                              [latitude |-> Num(47), longitude |-> Num(47)]}}

\* exports.flyDrone builds one instance per inbound request; instance 2
\* is the one built while instance 1 may still be waiting.
ReceiveConcurrent(r) ==
  /\ r = 2 => req[1] # NoRequest
  /\ \E q \in ConcurrentRequests : run(r, q)

\* A session in which an earlier permission turn has stored a precision.
InitConc ==
  /\ turn = 0
  /\ \E p \in {DEVICE_PRECISE_LOCATION, DEVICE_COARSE_LOCATION} :
       /\ data = [requestedPermission |-> p]
       /\ chosen = p
  /\ req = [r \in Slots |-> NoRequest]
  /\ DEFAULT_CITY = [r \in Slots |-> Undefined]
  /\ DEFAULT_LAT = [r \in Slots |-> Undefined]
  /\ DEFAULT_LONG = [r \in Slots |-> Undefined]
  /\ pc = [r \in Slots |-> "idle"]
  /\ result = [r \in Slots |-> NotAPromise]
  /\ geocoded = [r \in Slots |-> Undefined]
  /\ settled = [r \in Slots |-> Undefined]
  /\ answered = [r \in Slots |-> Undefined]
  /\ calls = [r \in Slots |-> <<>>]
  /\ out = [r \in Slots |-> <<>>]
  /\ errors = [r \in Slots |-> <<>>]
  /\ staticMapsURL = [center |-> Undefined, markers |-> Undefined]

\* Two instances whose handlers and callbacks interleave in any order.
NextConc ==
  \/ ReceiveConcurrent(1)
  \/ ReceiveConcurrent(2)
  \/ reverseGeocodeCallback(1)
  \/ reverseGeocodeCallback(2)
  \/ geocodeCallback(1)
  \/ geocodeCallback(2)
  \/ thenContinuation(1)
  \/ thenContinuation(2)
  \/ requestCallback(1)
  \/ requestCallback(2)
  \/ catchHandler(1)
  \/ catchHandler(2)

SpecConc == InitConc /\ [][NextConc]_vars

\* Longest utterance of the specification that exercises ssml.
MaxInputLen == 3

\* The characters ssml treats specially, and two plain ones that spell an
\* entity.
InputChars == {"&", "<", ">", "\"", " ", "l", "t", ";"}

Utterances ==
  UNION {[1..n -> InputChars] : n \in 0..MaxInputLen}

\* The first request of a session is an unhandled deep link with utterance
\* u: [Actions.UNHANDLED_DEEP_LINK] interpolates it into an ssml template.
ReceiveUtterance(r) ==
  /\ turn = 0
  /\ \E u \in Utterances :
       run(r, Inbound(Actions.UNHANDLED_DEEP_LINK, FALSE, FALSE, Str(u),
                      Undefined, Undefined))

NextEscape == ReceiveUtterance(1)

SpecEscape == Init /\ [][NextEscape]_vars

\* ---------------------------------------------------------------- claims
RECURSIVE CountCalls(_, _)
CountCalls(cs, svc) ==
  IF cs = <<>> THEN 0
  ELSE (IF Head(cs).svc = svc THEN 1 ELSE 0) + CountCalls(Tail(cs), svc)

\* sub occurs in text as a contiguous run of tokens.
Contains(text, sub) ==
  \E i \in 0..(Len(text) - Len(sub)) : SubSeq(text, i + 1, i + Len(sub)) = sub

GenericFailure == <<Tell(flyDroneError)>>

NonEmptyString(v) == v.t = "string" /\ v.s # <<>>

\* Nothing more will run for the request of instance r.
Finished(r) == pc[r] = "done"

DeniedData(r) ==
  /\ req[r].intent = Actions.HANDLE_DATA
  /\ ~req[r].granted

PrecisePath(r) ==
  /\ req[r].intent = Actions.HANDLE_DATA
  /\ req[r].granted
  /\ req[r].requestedPermission = DEVICE_PRECISE_LOCATION
  /\ req[r].coordinates # Undefined

CoarsePath(r) ==
  /\ req[r].intent = Actions.HANDLE_DATA
  /\ req[r].granted
  /\ req[r].requestedPermission = DEVICE_COARSE_LOCATION

UnrecognizedPermission(r) ==
  /\ req[r].intent = Actions.HANDLE_DATA
  /\ req[r].granted
  /\ req[r].requestedPermission \notin {DEVICE_COARSE_LOCATION, DEVICE_PRECISE_LOCATION}

\* The Geocoding Service called back with a failure: a service error, no
\* results, no location (forward), no component typed locality (reverse).
GeocodingError(o) == o # Undefined /\ Truthy(o.e)
GeocodingNoResults(o) == o # Undefined /\ ~Truthy(o.e) /\ o.results = <<>>
GeocodeDelivered(o) ==
  /\ o # Undefined /\ ~Truthy(o.e) /\ o.results # <<>>
  /\ o.results[1].location # Undefined
LocalityDelivered(o) ==
  /\ o # Undefined /\ ~Truthy(o.e) /\ o.results # <<>>
  /\ \E i \in DOMAIN o.results[1].address_components :
       o.results[1].address_components[i].types = <<"locality">>

GeocodingFailed(r) ==
  /\ geocoded[r] # Undefined
  /\ IF req[r].intent = Actions.CUSTOM_ADDRESS
     THEN ~GeocodeDelivered(geocoded[r])
     ELSE ~LocalityDelivered(geocoded[r])

\* The Advisory Service answered 200 with a parseable body of colour c.
AdvisoryOk(o, c) ==
  /\ o # Undefined /\ ~Truthy(o.error)
  /\ o.response.statusCode = 200
  /\ o.body.parseable
  /\ o.body.data.advisory_color = c

AdvisoryFailed(o) ==
  /\ o # Undefined
  /\ \/ Truthy(o.error)
     \/ o.response.statusCode # 200
     \/ ~o.body.parseable

\* C1: every inbound request ends with a spoken response: once nothing
\* more will run for a request, at least one of tell, ask and
\* askForPermission has been emitted for it.
C1_EveryRequestAnswered ==
  \A r \in Slots : Finished(r) => out[r] # <<>>

\* C2: handle-location-data with permission granted, precise precision, a
\* city from reverse geocoding and the Advisory Service answering 200 /
\* green / a condition / a wind speed ends with a final response whose text
\* contains the city, the green sentence, the condition and the wind speed.
C2_GreenAdvisorySpoken ==
  \A r \in Slots :
    (/\ PrecisePath(r)
     /\ LocalityDelivered(geocoded[r])
     /\ AdvisoryOk(answered[r], "green")
     /\ Finished(r))
    => \E i \in DOMAIN out[r] :
         /\ out[r][i].kind = "tell"
         /\ out[r][i].speech.t = "rich"
         /\ LET text == out[r][i].speech.speech.s
                w == answered[r].body.data.weather
            IN /\ Contains(text, escape(DEFAULT_CITY[r].s))
               /\ Contains(text, COLOR_CODE["green"])
               /\ Contains(text, escape(w.condition.s))
               /\ Contains(text, <<ToString(w.wind.speed.n)>>)

\* C3: handle-location-data without the permission granted issues no call
\* to the Geocoding or the Advisory Service and, whatever requestedPermission
\* the session holds, emits exactly the generic failure prompt.
C3_DeniedIsGenericFailure ==
  \A r \in Slots :
    DeniedData(r) =>
      /\ calls[r] = <<>>
      /\ pc[r] \in {"catch", "done"}
      /\ out[r] = IF Finished(r) THEN GenericFailure ELSE <<>>

C3_Witness ==
  \E r \in Slots :
    /\ DeniedData(r)
    /\ req[r].requestedPermission = DEVICE_PRECISE_LOCATION
    /\ Finished(r)
    /\ out[r] = GenericFailure

\* C4: a request whose intent is not recognized (no intent, or a name that
\* is none of the five handlers) produces the generic failure response.
C4_UnrecognizedIntentFails ==
  \A r \in Slots :
    (req[r] # NoRequest /\ req[r].intent \notin HandlerNames /\ Finished(r))
    => out[r] = GenericFailure

\* C5: on the precise path with device coordinates present, reverse
\* geocoding is the first call and is made exactly once, no forward
\* geocoding is made, the advisory request is made at most once and only
\* after the reverse-geocode callback has delivered a city, and it is made
\* exactly once when the continuation has run with a delivered city name.
C5_ReverseGeocodeThenAdvisory ==
  \A r \in Slots :
    PrecisePath(r) =>
      LET rev == ReverseGeocodeCall(req[r].coordinates.latitude,
                                    req[r].coordinates.longitude)
          air == AirNowCall(req[r].coordinates.latitude,
                            req[r].coordinates.longitude, Undefined)
      IN /\ calls[r] \in {<<rev>>, <<rev, air>>}
         /\ calls[r] = <<rev, air>> =>
              /\ LocalityDelivered(geocoded[r])
              /\ DEFAULT_CITY[r] = settled[r]
         /\ (/\ LocalityDelivered(geocoded[r])
             /\ NonEmptyString(settled[r])
             /\ pc[r] \in {"request", "done"})
            => calls[r] = <<rev, air>>

C5_Witness ==
  \E r \in Slots :
    /\ PrecisePath(r)
    /\ NonEmptyString(DEFAULT_CITY[r])
    /\ Len(calls[r]) = 2
    /\ calls[r][1].svc = "reverseGeocode"
    /\ calls[r][2].svc = "airnow"

\* C6: on the custom-address path forward geocoding of the raw utterance
\* is the first call and is made exactly once; an advisory request is made
\* at most once, only after the geocode callback has delivered latitude and
\* longitude (which it then carries), and never when geocoding failed.
C6_GeocodeBeforeAdvisory ==
  \A r \in Slots :
    req[r].intent = Actions.CUSTOM_ADDRESS =>
      /\ calls[r] # <<>>
      /\ calls[r][1] = GeocodeCall(req[r].rawInput)
      /\ CountCalls(calls[r], "geocode") = 1
      /\ CountCalls(calls[r], "reverseGeocode") = 0
      /\ CountCalls(calls[r], "airnow") <= 1
      /\ CountCalls(calls[r], "airnow") = 1 =>
           /\ GeocodeDelivered(geocoded[r])
           /\ calls[r][2] = AirNowCall(geocoded[r].results[1].location.lat,
                                       geocoded[r].results[1].location.lng,
                                       Undefined)

C6_Witness ==
  \E r \in Slots :
    /\ req[r].intent = Actions.CUSTOM_ADDRESS
    /\ GeocodeDelivered(geocoded[r])
    /\ Len(calls[r]) = 2
    /\ calls[r][2].svc = "airnow"

\* C7: handle-location-data with permission granted and coarse precision
\* ends at once with exactly one tell and no outbound call: the "no coarse
\* location" prompt when the device city is missing or empty, otherwise the
\* imprecise-location caution prompt, which embeds the device city.
C7_CoarseIsTerminalPrompt ==
  \A r \in Slots :
    CoarsePath(r) =>
      /\ calls[r] = <<>>
      /\ Finished(r)
      /\ Len(out[r]) = 1
      /\ out[r][1].kind = "tell"
      /\ IF req[r].city = Undefined \/ req[r].city = Str(<<>>)
         THEN out[r][1].speech = noCoarseLocation
         ELSE /\ out[r][1].speech = coarseLocation(req[r].city)
              /\ out[r][1].speech # noCoarseLocation
              /\ Contains(out[r][1].speech.s, req[r].city.s)

C7_Witness ==
  \E r \in Slots :
    /\ CoarsePath(r)
    /\ NonEmptyString(req[r].city)
    /\ Len(out[r]) = 1
    /\ Contains(out[r][1].speech.s, req[r].city.s)

\* A failure of one of the classes (b) to (f) has happened for instance r.
UnresolvableLocation(r) ==
  \E i \in DOMAIN errors[r] :
    errors[r][i].error = "We cannot resolve the location."

FailureClass(r) ==
  \/ UnresolvableLocation(r)
  \/ GeocodingFailed(r)
  \/ AdvisoryFailed(answered[r])
  \/ DeniedData(r)
  \/ UnrecognizedPermission(r)

\* C8: each failure class (b) unresolvable location, (c) geocoding
\* failure, (d) advisory fetch failure, (e) permission denied, (f)
\* unrecognized permission state ends with the same generic spoken failure
\* message.
C8_FailuresSurfaceAsGenericFailure ==
  \A r \in Slots :
    (req[r] # NoRequest /\ FailureClass(r) /\ Finished(r))
    => out[r] = GenericFailure

\* C9: when the Geocoding Service fails (service error, no results, or no
\* locality component on reverse geocoding) the promise returned by the
\* handler rejects and the generic failure prompt is emitted.
C9_GeocodingFailureRejects ==
  \A r \in Slots :
    (req[r] # NoRequest /\ GeocodingFailed(r) /\ Finished(r))
    => /\ result[r] # NotAPromise
       /\ result[r].state = "rejected"
       /\ out[r] = GenericFailure

\* C10: an issued Advisory Service request belongs to an instance whose
\* city is non-empty or whose latitude and longitude are both set; when
\* fetchAirMap has been called with neither, no request is issued and the
\* fetch fails with the "cannot resolve location" error.
C10_AdvisoryNeedsLocation ==
  \A r \in Slots :
    LET located ==
          \/ NonEmptyString(DEFAULT_CITY[r])
          \/ DEFAULT_LAT[r] # Undefined /\ DEFAULT_LONG[r] # Undefined
        fetched == result[r] = Promise("fulfilled", "")
    IN /\ CountCalls(calls[r], "airnow") > 0 => located
       /\ (fetched /\ ~located) =>
            /\ CountCalls(calls[r], "airnow") = 0
            /\ UnresolvableLocation(r)

C10_Witness ==
  \E r \in Slots :
    /\ CountCalls(calls[r], "airnow") = 1
    /\ ~NonEmptyString(DEFAULT_CITY[r])
    /\ DEFAULT_LAT[r] # Undefined
    /\ DEFAULT_LONG[r] # Undefined

\* C11: a permission request asks for precise location on a surface with
\* screen output and for coarse location otherwise, and in every state in
\* which the permission prompt has been emitted the session's
\* requestedPermission equals the precision the prompt names.
C11_PrecisionStoredBeforeAsking ==
  \A r \in Slots :
    req[r].intent = Actions.REQUEST_LOC_PERMISSION =>
      LET precision == IF req[r].screen THEN DEVICE_PRECISE_LOCATION
                    ELSE DEVICE_COARSE_LOCATION
      IN /\ \A i \in DOMAIN out[r] :
              out[r][i].kind = "askForPermission" =>
                /\ out[r][i].permission = precision
                /\ data.requestedPermission = out[r][i].permission
         /\ ~req[r].granted =>
              out[r] = <<AskForPermission(permissionReason, precision)>>

C11_Witness ==
  \E r \in Slots :
    /\ req[r].intent = Actions.REQUEST_LOC_PERMISSION
    /\ req[r].screen
    /\ req[r].requestedPermission = DEVICE_COARSE_LOCATION
    /\ Len(out[r]) = 1
    /\ out[r][1].kind = "askForPermission"
    /\ out[r][1].permission = DEVICE_PRECISE_LOCATION

\* The rendered unhandled-deep-link prompt around its input.
DeepLinkHead ==
  <<"<", "speak", ">", "We're sorry, we didn't understand", " ">>
DeepLinkTail ==
  <<".", " ", "Please try again.", "<", "/speak", ">">>

\* What the prompt of instance r holds between the constant parts.
RenderedInput(r) ==
  LET text == out[r][1].speech.s
  IN SubSeq(text, Len(DeepLinkHead) + 1, Len(text) - Len(DeepLinkTail))

Entities ==
  {<<"&", "a", "m", "p", ";">>, <<"&", "l", "t", ";">>,
   <<"&", "g", "t", ";">>, <<"&", "q", "u", "o", "t", ";">>}

\* No < > " in x, and every & of x opens an entity.
NoUnescaped(x) ==
  \A i \in DOMAIN x :
    /\ x[i] \notin {"<", ">", "\""}
    /\ x[i] = "&" => \E e \in Entities : SubSeq(x, i, i + Len(e) - 1) = e

RECURSIVE replaceRun(_, _, _)
\* Every occurrence of the run pat in s replaced by the character c.
replaceRun(s, pat, c) ==
  IF Len(s) < Len(pat) THEN s
  ELSE IF SubSeq(s, 1, Len(pat)) = pat
       THEN <<c>> \o replaceRun(SubSeq(s, Len(pat) + 1, Len(s)), pat, c)
       ELSE <<Head(s)>> \o replaceRun(Tail(s), pat, c)

\* The inverse of the escaping: the ampersand entity is resolved last.
unescape(x) ==
  replaceRun(
    replaceRun(
      replaceRun(
        replaceRun(x, <<"&", "q", "u", "o", "t", ";">>, "\""),
        <<"&", "g", "t", ";">>, ">"),
      <<"&", "l", "t", ";">>, "<"),
    <<"&", "a", "m", "p", ";">>, "&")

HasSpecial(x) == \E i \in DOMAIN x : x[i] \in {"&", "<", ">", "\""}

DeepLinkRendered(r) ==
  /\ req[r].intent = Actions.UNHANDLED_DEEP_LINK
  /\ HasSpecial(req[r].rawInput.s)

\* C12 as stated: for an input holding any of & < > ", the rendered input
\* holds none of them unescaped and unescaping it gives back the input.
C12_EscapeRoundTrip ==
  \A r \in Slots :
    DeepLinkRendered(r) =>
      /\ NoUnescaped(RenderedInput(r))
      /\ unescape(RenderedInput(r)) = req[r].rawInput.s

\* C12 amended: for an input holding any of & < > ", the rendered input
\* holds none of them unescaped, and unescaping it gives back the input up
\* to whitespace: the two are equal once trimmed and with each run of
\* whitespace collapsed to one space.
C12_EscapeRoundTripUpToWhitespace ==
  \A r \in Slots :
    DeepLinkRendered(r) =>
      /\ out[r][1].speech.s = DeepLinkHead \o RenderedInput(r) \o DeepLinkTail
      /\ NoUnescaped(RenderedInput(r))
      /\ collapseWhitespace(trim(unescape(RenderedInput(r))))
           = collapseWhitespace(trim(req[r].rawInput.s))

C12_Witness ==
  \E r \in Slots :
    /\ DeepLinkRendered(r)
    /\ req[r].rawInput.s = <<" ", "&", "<">>
    /\ RenderedInput(r) = <<"&", "a", "m", "p", ";", "&", "l", "t", ";">>

\* C13: the hazard mapping gives a fixed non-empty sentence for each of
\* red, orange, yellow and green, and a request whose advisory result has a
\* colour key that is none of the four still ends with a response.
C13_HazardMappingTotal ==
  /\ \A k \in {"red", "orange", "yellow", "green"} :
       NonEmptyString(ColorLookup(k))
  /\ \A r \in Slots :
       (/\ \E c \in AdvisoryColors \ ColorKeys : AdvisoryOk(answered[r], c)
        /\ Finished(r))
       => out[r] # <<>>

\* The promise the handler of instance r returned has rejected.
Rejected(r) == result[r].t = "promise" /\ result[r].state = "rejected"

\* C14: when the promise returned by the handler rejects, the only
\* response of the request is the generic failure prompt, emitted once by
\* the catch of run(): none before the catch has run, exactly that one
\* after.
C14_SingleCaughtErrorPath ==
  \A r \in Slots :
    Rejected(r) =>
      /\ pc[r] \in {"catch", "done"}
      /\ out[r] = IF Finished(r) THEN GenericFailure ELSE <<>>
      /\ errors[r] = <<>>

C14_Witness ==
  \E r \in Slots :
    /\ UnrecognizedPermission(r)
    /\ Rejected(r)
    /\ Finished(r)
    /\ out[r] = GenericFailure

\* The Advisory Service request failed in transport or with a status other
\* than 200.
AdvisoryRequestFailed(o) ==
  /\ o # Undefined
  /\ Truthy(o.error) \/ o.response.statusCode # 200

\* C15: when the Advisory Service request fails (transport error or status
\* other than 200) the promise run() watches is not rejected, so its catch
\* never runs, and no response is emitted for the request; the failure is
\* left unhandled inside the request callback.
C15_AdvisoryFailureIsSilent ==
  \A r \in Slots :
    AdvisoryRequestFailed(answered[r]) =>
      /\ Finished(r)
      /\ ~Rejected(r)
      /\ out[r] = <<>>
      /\ errors[r] # <<>>
      /\ errors[r][Len(errors[r])].at = "request callback"

C15_Witness ==
  \E r \in Slots :
    /\ answered[r] # Undefined
    /\ ~Truthy(answered[r].error)
    /\ answered[r].response.statusCode = 500
    /\ Finished(r)
    /\ out[r] = <<>>

\* C16: a permission request that arrives with the permission already
\* granted does not ask again, makes no external call, emits no response
\* and ends the turn at once.
C16_GrantedPermissionRequestIsSilent ==
  \A r \in Slots :
    (req[r].intent = Actions.REQUEST_LOC_PERMISSION /\ req[r].granted) =>
      /\ out[r] = <<>>
      /\ calls[r] = <<>>
      /\ errors[r] = <<>>
      /\ result[r] = NotAPromise
      /\ Finished(r)

C16_Witness ==
  \E r \in Slots :
    /\ req[r].intent = Actions.REQUEST_LOC_PERMISSION
    /\ req[r].granted
    /\ Finished(r)
    /\ out[r] = <<>>

\* Calls of instance r that have not called back yet.
Outstanding(r) ==
  Len(calls[r]) - (IF geocoded[r] # Undefined THEN 1 ELSE 0)
                - (IF answered[r] # Undefined THEN 1 ELSE 0)

\* Something has failed in the handling of the request of instance r.
Failed(r) ==
  \/ errors[r] # <<>>
  \/ Rejected(r)
  \/ GeocodingFailed(r)
  \/ AdvisoryFailed(answered[r])

\* C17: within one request at most one outbound call is outstanding at any
\* moment, each of geocode, reverse geocode and advisory fetch is called at
\* most once, and once anything has failed no further call is issued for
\* that request.
C17_SequentialNoRetry ==
  /\ [](\A r \in Slots :
          /\ Outstanding(r) \in {0, 1}
          /\ CountCalls(calls[r], "geocode") <= 1
          /\ CountCalls(calls[r], "reverseGeocode") <= 1
          /\ CountCalls(calls[r], "airnow") <= 1)
  /\ [][\A r \in Slots :
          (Failed(r) /\ turn' = turn) => calls'[r] = calls[r]]_vars

C17_Witness ==
  \E r \in Slots :
    /\ Len(calls[r]) = 2
    /\ Outstanding(r) = 0
    /\ AdvisoryFailed(answered[r])

\* C18: at most one response is ever emitted for a request, and the
\* generic failure prompt is never emitted next to another response.
C18_AtMostOneResponse ==
  \A r \in Slots :
    /\ Len(out[r]) <= 1
    /\ (\E i \in DOMAIN out[r] : out[r][i] = Tell(flyDroneError))
         => out[r] = GenericFailure

C18_Witness ==
  \E r \in Slots :
    /\ CoarsePath(r)
    /\ Finished(r)
    /\ out[r] = <<Tell(noCoarseLocation)>>

\* The coordinates the request of instance r resolved: those the geocoder
\* returned for its address, or those of its device.
OwnCoordinates(r) ==
  IF req[r].intent = Actions.CUSTOM_ADDRESS
  THEN <<geocoded[r].results[1].location.lat,
         geocoded[r].results[1].location.lng>>
  ELSE <<req[r].coordinates.latitude, req[r].coordinates.longitude>>

\* The city the request of instance r resolved: the address it spoke, or
\* the locality the reverse geocoder returned for its device.
OwnCity(r) ==
  IF req[r].intent = Actions.CUSTOM_ADDRESS
  THEN req[r].rawInput
  ELSE firstLocality(geocoded[r].results[1].address_components)

\* C19: with two requests in flight and their handlers and callbacks
\* interleaved in any order, every service query, every spoken text and
\* every map card of a request is built from the address, city and
\* coordinates of that same request, and the one module-level object,
\* staticMapsURL.query, is left as it was loaded.
C19_NoSharedStateAcrossRequests ==
  /\ staticMapsURL = [center |-> Undefined, markers |-> Undefined]
  /\ \A r \in Slots :
       /\ \A i \in DOMAIN calls[r] :
            CASE calls[r][i].svc = "geocode" ->
                   calls[r][i].address = req[r].rawInput
              [] calls[r][i].svc = "reverseGeocode" ->
                   calls[r][i].latlng = <<req[r].coordinates.latitude,
                                          req[r].coordinates.longitude>>
              [] OTHER ->
                   <<calls[r][i].latitude, calls[r][i].longitude>>
                     = OwnCoordinates(r)
       /\ \A i \in DOMAIN out[r] :
            IF out[r][i].speech.t = "rich"
            THEN out[r][i].speech.card
                   = [center |-> OwnCity(r), markers |-> OwnCoordinates(r)]
            ELSE out[r][i].speech \in {flyDroneError, CoarsePrompt(req[r].city)}

C19_Witness ==
  /\ pc[1] = "request"
  /\ pc[2] = "request"
  /\ req[1].intent = Actions.CUSTOM_ADDRESS
  /\ req[2].intent = Actions.HANDLE_DATA
  /\ OwnCoordinates(1) # OwnCoordinates(2)
  /\ req[1].rawInput # OwnCity(2)

\* C20: the session's requestedPermission is the precision chosen by the
\* latest permission-request turn (unset when there was none), whatever
\* other turns came in between, and a location-data turn branches on that
\* value.
C20_SessionHoldsLatestPrecision ==
  /\ data.requestedPermission = chosen
  /\ \A r \in Slots :
       req[r].intent = Actions.HANDLE_DATA =>
         /\ req[r].requestedPermission = chosen
         /\ (req[r].granted /\ chosen = DEVICE_COARSE_LOCATION)
              => out[r] = <<Tell(CoarsePrompt(req[r].city))>>
         /\ (req[r].granted /\ chosen = DEVICE_PRECISE_LOCATION)
              => IF req[r].coordinates = Undefined
                 THEN IsThrow(result[r])
                 ELSE calls[r] # <<>> /\ calls[r][1].svc = "reverseGeocode"
         /\ (req[r].granted /\ chosen = Undefined)
              => /\ Rejected(r)
                 /\ result[r].reason = "Unrecognized permission"

C20_Witness ==
  \E r \in Slots :
    /\ turn = 2
    /\ req[r].intent = Actions.HANDLE_DATA
    /\ req[r].granted
    /\ chosen = DEVICE_COARSE_LOCATION
    /\ data.requestedPermission = DEVICE_COARSE_LOCATION
    /\ out[r] = <<Tell(CoarsePrompt(req[r].city))>>

====
